---- MODULE Spec2Model ----
(***************************************************************************)
(* Model of the MH-Z19 packet codec (src/src/lib.rs): the five command     *)
(* encoders, the checksum, parse_payload and parse_gas_contentration_ppm,  *)
(* driven by a caller that encodes commands, receives sensor frames and    *)
(* line faults, and hands the received bytes to the decoders.              *)
(***************************************************************************)
EXTENDS Integers, Sequences, FiniteSets, TLC

VARIABLES
    call,    \* the last frame source: an encoder call with its arguments, a sensor frame, raw bytes
    wire,    \* the frame as it was emitted
    buf,     \* the bytes the caller holds and hands to the decoder
    faults,  \* number of line faults applied to buf since it was emitted
    ret      \* the result of the last decoder call on buf, or NoResult

vars == <<call, wire, buf, faults, ret>>

----------------------------------------------------------------------------
(* Bounds of the model *)

\* line faults applied to one frame
MaxFaults == 1
\* bytes of the following frame an over-long read may append
MaxExtra == 3

(* Program constants *)

\* pub type Packet = [u8; 9]
PacketLen == 9
\* modulus of u8 arithmetic
U8 == 256
\* modulus of u16 arithmetic
U16 == 65536

Byte == 0 .. (U8 - 1)

\* device numbers the caller uses (0x7A makes the payload of a read command sum to 0 mod 256)
Devs == {1, 122, 134, 255}
\* 16-bit values the caller uses (2000 = 0x07D0 is the value of issue_3_op_precedence)
Values == {0, 255, 256, 2000, 41215, 65535}
\* amounts (mod 256) by which a line fault changes one byte: +1, -1, bit 7 flipped
Deltas == {1, 128, 255}

----------------------------------------------------------------------------
(* u8 / u16 arithmetic as the code computes it *)

WrappingAdd(a, b) == (a + b) % U8

RECURSIVE BitAnd(_, _)
BitAnd(a, b) ==
    IF a = 0 \/ b = 0 THEN 0
    ELSE (a % 2) * (b % 2) + 2 * BitAnd(a \div 2, b \div 2)

RECURSIVE Shr(_, _)
Shr(a, n) == IF n = 0 THEN a ELSE Shr(a \div 2, n - 1)

\* `x as u8`: truncation to the low 8 bits
AsU8(x) == x % U8

\* s[i] of a Rust slice (0-based); OutOfBounds stands for the panic of a bad index
OutOfBounds == -1
Index(s, i) == IF i >= 0 /\ i < Len(s) THEN s[i + 1] ELSE OutOfBounds

\* &s[a..b] of a Rust slice (0-based, b exclusive)
Slice(s, a, b) == SubSeq(s, a + 1, b)

----------------------------------------------------------------------------
(* Command *)

Commands == {"ReadGasConcentration", "CalibrateZero", "CalibrateSpan",
             "SetAutomaticBaselineCorrection", "SetSensorDetectionRange"}

\* mutant: the codes of the two configuration commands are exchanged
get_command_value_swapped(command) ==
    CASE command = "ReadGasConcentration" -> 134
      [] command = "CalibrateZero" -> 135
      [] command = "CalibrateSpan" -> 136
      [] command = "SetAutomaticBaselineCorrection" -> 153
      [] command = "SetSensorDetectionRange" -> 121

get_command_value(command) ==
    CASE command = "ReadGasConcentration" -> 134            \* 0x86
      [] command = "CalibrateZero" -> 135                   \* 0x87
      [] command = "CalibrateSpan" -> 136                   \* 0x88
      [] command = "SetAutomaticBaselineCorrection" -> 121  \* 0x79
      [] command = "SetSensorDetectionRange" -> 153         \* 0x99

----------------------------------------------------------------------------
(* checksum *)

\* payload.iter().fold(0u8, |sum, c| sum.wrapping_add(*c))
RECURSIVE Fold(_, _)
Fold(sum, payload) ==
    IF payload = <<>> THEN sum
    ELSE Fold(WrappingAdd(sum, Head(payload)), Tail(payload))

\* 0xff - fold: a plain u8 subtraction
ChecksumDiff(payload) == 255 - Fold(0, payload)

\* mutant: the final addition does not wrap
checksum_no_wrap(payload) == 1 + ChecksumDiff(payload)

\* mutant: the fold stops one byte short of the span
checksum_skip_last(payload) ==
    WrappingAdd(1, 255 - Fold(0, SubSeq(payload, 1, Len(payload) - 1)))

checksum(payload) == WrappingAdd(1, ChecksumDiff(payload))

----------------------------------------------------------------------------
(* Encoder *)

\* mutant: the checksum is taken over &ret[0..8], the start byte included
get_command_with_bytes34_from0(command, device_number, byte3, byte4) ==
    LET ret0 == <<255, device_number, get_command_value(command),
                  byte3, byte4, 0, 0, 0, 0>>
    IN  [ret0 EXCEPT ![9] = checksum(Slice(ret0, 0, 8))]

get_command_with_bytes34(command, device_number, byte3, byte4) ==
    LET ret0 == <<255, device_number, get_command_value(command),
                  byte3, byte4, 0, 0, 0, 0>>
    IN  [ret0 EXCEPT ![9] = checksum(Slice(ret0, 1, 8))]

read_gas_concentration(device_number) ==
    get_command_with_bytes34("ReadGasConcentration", device_number, 0, 0)

set_automatic_baseline_correction(device_number, enabled) ==
    get_command_with_bytes34("SetAutomaticBaselineCorrection", device_number,
                             IF enabled THEN 160 ELSE 0, 0)

\* mutant: (value & 0xff00 >> 8) as u8, the shift binding tighter than the mask
HighByte_precedence(value) == AsU8(BitAnd(value, Shr(65280, 8)))

\* ((value & 0xff00) >> 8) as u8
HighByte(value) == AsU8(Shr(BitAnd(value, 65280), 8))

\* (value & 0xff) as u8
LowByte(value) == AsU8(BitAnd(value, 255))

calibrate_span_point(device_number, value) ==
    get_command_with_bytes34("CalibrateSpan", device_number,
                             HighByte(value), LowByte(value))

set_detection_range(device_number, value) ==
    get_command_with_bytes34("SetSensorDetectionRange", device_number,
                             HighByte(value), LowByte(value))

calibrate_zero_point(device_number) ==
    get_command_with_bytes34("CalibrateZero", device_number, 0, 0)

----------------------------------------------------------------------------
(* MHZ19Error and Result *)

WrongPacketLength(found) == [kind |-> "WrongPacketLength", found |-> found]
WrongChecksum(expected, found) ==
    [kind |-> "WrongChecksum", expected |-> expected, found |-> found]
WrongStartByte(found) == [kind |-> "WrongStartByte", found |-> found]
WrongPacketType(expected, found) ==
    [kind |-> "WrongPacketType", expected |-> expected, found |-> found]
Ok(value) == [kind |-> "Ok", value |-> value]
\* a panic (an index out of bounds): no Result is returned
Panic == [kind |-> "Panic"]

\* no checksum was computed by the call
NoChecksum == [span |-> <<>>, out |-> 0]

----------------------------------------------------------------------------
(* Decoder.  A decode yields the value returned (res), the set of 0-based *)
(* indices of the packet it tried to read (reads) and the checksum        *)
(* computation it made (cks).                                             *)

\* mutant: the start byte is not checked
parse_payload_no_start_check(packet) ==
    IF Len(packet) # PacketLen
    THEN [res |-> WrongPacketLength(Len(packet)), reads |-> {}, cks |-> NoChecksum]
    ELSE
    LET payload == Slice(packet, 1, 8)
        found_checksum == Index(packet, 8)
        payload_checksum == checksum(payload)
        cks == [span |-> payload, out |-> payload_checksum]
    IN  IF found_checksum # payload_checksum
        THEN [res |-> WrongChecksum(payload_checksum, found_checksum),
              reads |-> 1 .. 8, cks |-> cks]
        ELSE [res |-> Ok(payload), reads |-> 1 .. 8, cks |-> cks]

\* mutant: the checksum is checked before the start byte
parse_payload_checksum_first(packet) ==
    IF Len(packet) # PacketLen
    THEN [res |-> WrongPacketLength(Len(packet)), reads |-> {}, cks |-> NoChecksum]
    ELSE
    LET payload == Slice(packet, 1, 8)
        found_checksum == Index(packet, 8)
        payload_checksum == checksum(payload)
        cks == [span |-> payload, out |-> payload_checksum]
        header == Index(packet, 0)
    IN  IF found_checksum # payload_checksum
        THEN [res |-> WrongChecksum(payload_checksum, found_checksum),
              reads |-> 1 .. 8, cks |-> cks]
        ELSE IF header # 255
        THEN [res |-> WrongStartByte(header), reads |-> 0 .. 8, cks |-> cks]
        ELSE [res |-> Ok(payload), reads |-> 0 .. 8, cks |-> cks]

\* mutant: the start byte is read before the length is checked
parse_payload_header_first(packet) ==
    LET header == Index(packet, 0) IN
    IF header = OutOfBounds
    THEN [res |-> Panic, reads |-> {0}, cks |-> NoChecksum]
    ELSE IF header # 255
    THEN [res |-> WrongStartByte(header), reads |-> {0}, cks |-> NoChecksum]
    ELSE IF Len(packet) # PacketLen
    THEN [res |-> WrongPacketLength(Len(packet)), reads |-> {0}, cks |-> NoChecksum]
    ELSE
    LET payload == Slice(packet, 1, 8)
        found_checksum == Index(packet, 8)
        payload_checksum == checksum(payload)
        cks == [span |-> payload, out |-> payload_checksum]
    IN  IF found_checksum # payload_checksum
        THEN [res |-> WrongChecksum(payload_checksum, found_checksum),
              reads |-> 0 .. 8, cks |-> cks]
        ELSE [res |-> Ok(payload), reads |-> 0 .. 8, cks |-> cks]

parse_payload(packet) ==
    IF Len(packet) # PacketLen
    THEN [res |-> WrongPacketLength(Len(packet)), reads |-> {}, cks |-> NoChecksum]
    ELSE
    LET header == Index(packet, 0) IN
    IF header = OutOfBounds
    THEN [res |-> Panic, reads |-> {0}, cks |-> NoChecksum]
    ELSE IF header # 255
    THEN [res |-> WrongStartByte(header), reads |-> {0}, cks |-> NoChecksum]
    ELSE IF Len(packet) < 9
    THEN [res |-> Panic, reads |-> 0 .. 8, cks |-> NoChecksum]
    ELSE
    LET payload == Slice(packet, 1, 8)
        found_checksum == Index(packet, 8)
        payload_checksum == checksum(payload)
        cks == [span |-> payload, out |-> payload_checksum]
    IN  IF found_checksum # payload_checksum
        THEN [res |-> WrongChecksum(payload_checksum, found_checksum),
              reads |-> 0 .. 8, cks |-> cks]
        ELSE [res |-> Ok(payload), reads |-> 0 .. 8, cks |-> cks]

\* mutant: the two data bytes are combined low byte first
parse_gas_contentration_ppm_little_endian(packet) ==
    LET r == parse_payload(packet) IN
    IF r.res.kind # "Ok" THEN r
    ELSE
    LET payload == r.res.value IN
    IF Index(payload, 0) # get_command_value("ReadGasConcentration")
    THEN [r EXCEPT !.res = WrongPacketType(get_command_value("ReadGasConcentration"),
                                           Index(payload, 0))]
    ELSE [r EXCEPT !.res = Ok(Index(payload, 1) + 256 * Index(payload, 2))]

\* mutant: a failed parse_payload is taken for an empty reading instead of propagated
parse_gas_contentration_ppm_swallow(packet) ==
    LET r == parse_payload(packet) IN
    IF r.res.kind # "Ok" THEN [r EXCEPT !.res = Ok(0)]
    ELSE
    LET payload == r.res.value IN
    IF Index(payload, 0) # get_command_value("ReadGasConcentration")
    THEN [r EXCEPT !.res = WrongPacketType(get_command_value("ReadGasConcentration"),
                                           Index(payload, 0))]
    ELSE [r EXCEPT !.res = Ok(256 * Index(payload, 1) + Index(payload, 2))]

parse_gas_contentration_ppm(packet) ==
    LET r == parse_payload(packet) IN
    IF r.res.kind # "Ok" THEN r
    ELSE
    LET payload == r.res.value IN
    IF Index(payload, 0) # get_command_value("ReadGasConcentration")
    THEN [r EXCEPT !.res = WrongPacketType(get_command_value("ReadGasConcentration"),
                                           Index(payload, 0))]
    ELSE [r EXCEPT !.res = Ok(256 * Index(payload, 1) + Index(payload, 2))]

----------------------------------------------------------------------------
(* The caller: frames come from the encoders (a command looped back, as in *)
(* test_get_command_packet), from the sensor (a response frame) or from    *)
(* the line as raw bytes (the literal buffers of test_get_payload); the    *)
(* line may change a byte, cut the read short or run into the next frame.  *)

\* the checksum as the sensor's datasheet defines it, on unbounded integers
RECURSIVE SumBytes(_)
SumBytes(s) == IF s = <<>> THEN 0 ELSE Head(s) + SumBytes(Tail(s))

SensorChecksum(payload) == (U8 - (SumBytes(payload) % U8)) % U8

\* response payloads: echoed command, two data bytes, and the tail of the test's response
ResponsePayloads ==
    { <<c, hi, lo, 71, 0, 0, 0>> : c \in {134, 121, 153}, hi \in {0, 2, 255}, lo \in {0, 96, 255} }

\* the literal buffers of test_get_payload
RawBuffers ==
    { <<>>, <<12>>, <<1, 2, 3, 4, 5, 6, 7, 8, 9, 10, 11, 12>>,
      <<10, 2, 3, 4, 5, 6, 7, 8, 9>>, <<255, 2, 3, 4, 5, 6, 7, 8, 9>>,
      <<255, 134, 2, 96, 71, 0, 0, 0, 16>>, <<255, 134, 2, 96, 71, 0, 0, 0, 209>> }

EncoderFns == {"read_gas_concentration", "calibrate_zero_point", "calibrate_span_point",
               "set_automatic_baseline_correction", "set_detection_range"}

NoCall == [fn |-> "none", device_number |-> 0, value |-> 0, enabled |-> FALSE]
NoResult == [fn |-> "none", res |-> [kind |-> "None"], reads |-> {}, cks |-> NoChecksum]

EncoderCall(fn, d, v, e) == [fn |-> fn, device_number |-> d, value |-> v, enabled |-> e]

\* the packets the encoders return for the caller's arguments, computed once
ReadGasConcentrationPackets == [d \in Devs |-> read_gas_concentration(d)]
CalibrateZeroPointPackets == [d \in Devs |-> calibrate_zero_point(d)]
CalibrateSpanPointPackets == [d \in Devs, v \in Values |-> calibrate_span_point(d, v)]
SetAutomaticBaselineCorrectionPackets ==
    [d \in Devs, e \in BOOLEAN |-> set_automatic_baseline_correction(d, e)]
SetDetectionRangePackets == [d \in Devs, v \in Values |-> set_detection_range(d, v)]
\* the frames the sensor sends
SensorFrames == { <<255>> \o p \o <<SensorChecksum(p)>> : p \in ResponsePayloads }

Init ==
    /\ call = NoCall
    /\ wire = <<>>
    /\ buf = <<>>
    /\ faults = 0
    /\ ret = NoResult

ReadGasConcentration ==
    \E d \in Devs :
        /\ call' = EncoderCall("read_gas_concentration", d, 0, FALSE)
        /\ wire' = ReadGasConcentrationPackets[d]
        /\ buf' = wire'
        /\ faults' = 0
        /\ ret' = NoResult

CalibrateZeroPoint ==
    \E d \in Devs :
        /\ call' = EncoderCall("calibrate_zero_point", d, 0, FALSE)
        /\ wire' = CalibrateZeroPointPackets[d]
        /\ buf' = wire'
        /\ faults' = 0
        /\ ret' = NoResult

CalibrateSpanPoint ==
    \E d \in Devs, v \in Values :
        /\ call' = EncoderCall("calibrate_span_point", d, v, FALSE)
        /\ wire' = CalibrateSpanPointPackets[d, v]
        /\ buf' = wire'
        /\ faults' = 0
        /\ ret' = NoResult

SetAutomaticBaselineCorrection ==
    \E d \in Devs, e \in BOOLEAN :
        /\ call' = EncoderCall("set_automatic_baseline_correction", d, 0, e)
        /\ wire' = SetAutomaticBaselineCorrectionPackets[d, e]
        /\ buf' = wire'
        /\ faults' = 0
        /\ ret' = NoResult

SetDetectionRange ==
    \E d \in Devs, v \in Values :
        /\ call' = EncoderCall("set_detection_range", d, v, FALSE)
        /\ wire' = SetDetectionRangePackets[d, v]
        /\ buf' = wire'
        /\ faults' = 0
        /\ ret' = NoResult

\* the sensor answers with a well-formed frame
SensorResponse ==
    \E f \in SensorFrames :
        /\ call' = [NoCall EXCEPT !.fn = "sensor"]
        /\ wire' = f
        /\ buf' = wire'
        /\ faults' = 0
        /\ ret' = NoResult

\* the caller reads raw bytes from the line
ReceiveRaw ==
    \E b \in RawBuffers :
        /\ call' = [NoCall EXCEPT !.fn = "raw"]
        /\ wire' = b
        /\ buf' = wire'
        /\ faults' = 0
        /\ ret' = NoResult

\* one byte of the buffer arrives changed
Corrupt ==
    /\ faults < MaxFaults
    /\ \E i \in 1 .. Len(buf), d \in Deltas :
           buf' = [buf EXCEPT ![i] = (buf[i] + d) % U8]
    /\ faults' = faults + 1
    /\ ret' = NoResult
    /\ UNCHANGED <<call, wire>>

\* the read returns only the first n bytes
ShortRead ==
    /\ faults < MaxFaults
    /\ \E n \in 0 .. (Len(buf) - 1) : buf' = SubSeq(buf, 1, n)
    /\ faults' = faults + 1
    /\ ret' = NoResult
    /\ UNCHANGED <<call, wire>>

\* the read runs into the first k bytes of the next frame (the same frame, sent again)
LongRead ==
    /\ faults < MaxFaults
    /\ \E k \in 1 .. MaxExtra :
           /\ k <= Len(wire)
           /\ buf' = buf \o SubSeq(wire, 1, k)
    /\ faults' = faults + 1
    /\ ret' = NoResult
    /\ UNCHANGED <<call, wire>>

ParsePayload ==
    /\ ret' = [fn |-> "parse_payload"] @@ parse_payload(buf)
    /\ UNCHANGED <<call, wire, buf, faults>>

ParseGasContentrationPpm ==
    /\ ret' = [fn |-> "parse_gas_contentration_ppm"] @@ parse_gas_contentration_ppm(buf)
    /\ UNCHANGED <<call, wire, buf, faults>>

Next ==
    \/ ReadGasConcentration
    \/ CalibrateZeroPoint
    \/ CalibrateSpanPoint
    \/ SetAutomaticBaselineCorrection
    \/ SetDetectionRange
    \/ SensorResponse
    \/ ReceiveRaw
    \/ Corrupt
    \/ ShortRead
    \/ LongRead
    \/ ParsePayload
    \/ ParseGasContentrationPpm

Spec == Init /\ [][Next]_vars

----------------------------------------------------------------------------
(* The value commands over every u16: the caller holds the arguments      *)
(* (device_number, value) of the call it is about to make, then makes it. *)

InitValues ==
    /\ call \in {EncoderCall("none", d, v, FALSE) : d \in {1, 255}, v \in 0 .. (U16 - 1)}
    /\ wire = <<>>
    /\ buf = <<>>
    /\ faults = 0
    /\ ret = NoResult

CalibrateSpanPointOf ==
    /\ call.fn = "none"
    /\ call' = [call EXCEPT !.fn = "calibrate_span_point"]
    /\ wire' = calibrate_span_point(call.device_number, call.value)
    /\ buf' = wire'
    /\ UNCHANGED <<faults, ret>>

SetDetectionRangeOf ==
    /\ call.fn = "none"
    /\ call' = [call EXCEPT !.fn = "set_detection_range"]
    /\ wire' = set_detection_range(call.device_number, call.value)
    /\ buf' = wire'
    /\ UNCHANGED <<faults, ret>>

NextValues ==
    \/ CalibrateSpanPointOf
    \/ SetDetectionRangeOf

SpecValues == InitValues /\ [][NextValues]_vars

----------------------------------------------------------------------------
(* What the claims speak of, stated without the codec's own operators *)

\* the command code byte of each encoder function
CodeOf(fn) ==
    CASE fn = "read_gas_concentration" -> 134
      [] fn = "calibrate_zero_point" -> 135
      [] fn = "calibrate_span_point" -> 136
      [] fn = "set_automatic_baseline_correction" -> 121
      [] fn = "set_detection_range" -> 153

\* 1 + (0xFF - S) mod 256, S the sum of the bytes mod 256
ChecksumOf(span) == (1 + (255 - (SumBytes(span) % 256))) % 256

\* length 9, byte 0 = 0xFF, byte 8 = checksum of bytes 1..7
WellFormed(b) ==
    /\ Len(b) = 9
    /\ b[1] = 255
    /\ b[9] = ChecksumOf(SubSeq(b, 2, 8))

Encoded == call.fn \in EncoderFns
Decoded == ret.fn \in {"parse_payload", "parse_gas_contentration_ppm"}
\* the encoded packet itself was handed to parse_payload
RoundTrip == Encoded /\ faults = 0 /\ ret.fn = "parse_payload"

----------------------------------------------------------------------------
(* C1 *)

\* C1 as stated: parse_payload of an encoded packet succeeds and byte 0 of the
\* returned payload equals the command's code byte.
C1_AsStated ==
    RoundTrip => /\ ret.res.kind = "Ok"
                 /\ ret.res.value[1] = CodeOf(call.fn)

\* C1 (amended): parse_payload of an encoded packet succeeds; byte 1 of the returned
\* payload equals the command's code byte and byte 0 is the device_number.
C1_RoundTrip ==
    RoundTrip => /\ ret.res.kind = "Ok"
                 /\ ret.res.value[2] = CodeOf(call.fn)
                 /\ ret.res.value[1] = call.device_number

C1_Witness ==
    /\ RoundTrip
    /\ ret.res.kind = "Ok"
    /\ call.fn = "set_detection_range"
    /\ call.device_number = 1
    /\ ret.res.value[2] = 153

----------------------------------------------------------------------------
(* C2 *)

\* C2: every packet an encoder returns is the 9 bytes [0xFF, device_number,
\* command_code, byte3, byte4, 0, 0, 0, checksum(bytes 1..7)] with the command code
\* of its function, so it is well formed.
C2_PacketForm ==
    Encoded => /\ Len(wire) = 9
               /\ \A i \in 1 .. 9 : wire[i] \in Byte
               /\ wire[1] = 255
               /\ wire[2] = call.device_number
               /\ wire[3] = CodeOf(call.fn)
               /\ wire[6] = 0 /\ wire[7] = 0 /\ wire[8] = 0
               /\ wire[9] = ChecksumOf(<<call.device_number, CodeOf(call.fn),
                                         wire[4], wire[5], 0, 0, 0>>)
               /\ WellFormed(wire)

C2_Witness ==
    /\ call.fn = "set_automatic_baseline_correction"
    /\ call.enabled
    /\ call.device_number = 255
    /\ wire[3] = 121
    /\ wire[4] = 160

----------------------------------------------------------------------------
(* C3 *)

\* C3: parse_payload succeeds iff the buffer has length 9, byte 0 is 0xFF and byte 8
\* is the checksum of bytes 1..7; the payload returned is bytes 1..7 of the input.
C3_AcceptsIffWellFormed ==
    ret.fn = "parse_payload" =>
        /\ (ret.res.kind = "Ok") <=> WellFormed(buf)
        /\ ret.res.kind = "Ok" =>
               /\ Len(ret.res.value) = 7
               /\ \A i \in 1 .. 7 : ret.res.value[i] = buf[i + 1]

C3_Witness ==
    /\ ret.fn = "parse_payload"
    /\ call.fn = "sensor"
    /\ ret.res.kind = "Ok"
    /\ ret.res.value = <<134, 2, 96, 71, 0, 0, 0>>

----------------------------------------------------------------------------
(* C4 *)

\* C4: faults are reported in the order length, start byte, checksum: a length other
\* than 9 gives WrongPacketLength whatever the bytes; 9 bytes not starting with 0xFF
\* give WrongStartByte(byte 0) even with a wrong checksum; WrongChecksum(computed,
\* byte 8) is returned only for 9 bytes starting with 0xFF.
C4_Precedence ==
    ret.fn = "parse_payload" =>
        /\ Len(buf) # 9 => ret.res.kind = "WrongPacketLength"
        /\ (Len(buf) = 9 /\ buf[1] # 255) => ret.res = WrongStartByte(buf[1])
        /\ ret.res.kind = "WrongChecksum" =>
               /\ Len(buf) = 9
               /\ buf[1] = 255
               /\ ret.res = WrongChecksum(ChecksumOf(SubSeq(buf, 2, 8)), buf[9])
               /\ ret.res.expected # ret.res.found

\* a 9-byte buffer with a wrong start byte and a wrong checksum at once
C4_Witness ==
    /\ ret.fn = "parse_payload"
    /\ Len(buf) = 9
    /\ buf[1] # 255
    /\ buf[9] # ChecksumOf(SubSeq(buf, 2, 8))
    /\ ret.res.kind = "WrongStartByte"

----------------------------------------------------------------------------
(* C5 *)

\* C5: on a buffer of any length other than 9 both decoders return
\* WrongPacketLength(actual length) without reading the buffer, and no decode reads
\* an index outside the buffer it was given.
C5_LengthFirst ==
    Decoded =>
        /\ Len(buf) # 9 => /\ ret.res = WrongPacketLength(Len(buf))
                            /\ ret.reads = {}
        /\ ret.reads \subseteq 0 .. (Len(buf) - 1)
        /\ ret.res.kind # "Panic"

C5_Witness ==
    /\ ret.fn = "parse_gas_contentration_ppm"
    /\ Len(buf) > 9
    /\ ret.res.kind = "WrongPacketLength"

----------------------------------------------------------------------------
(* C6 *)

\* C6: on a buffer parse_payload accepts, parse_gas_contentration_ppm returns
\* 256 * payload[1] + payload[2] (in 0..65535) when payload[0] is 0x86 and
\* WrongPacketType(0x86, payload[0]) otherwise; payload[0..2] are bytes 1..3.
C6_GasConcentration ==
    (ret.fn = "parse_gas_contentration_ppm" /\ parse_payload(buf).res.kind = "Ok") =>
        LET payload == parse_payload(buf).res.value IN
        /\ payload[1] = buf[2] /\ payload[2] = buf[3] /\ payload[3] = buf[4]
        /\ payload[1] = 134 => /\ ret.res = Ok(256 * payload[2] + payload[3])
                               /\ ret.res.value \in 0 .. 65535
        /\ payload[1] # 134 => ret.res = WrongPacketType(134, payload[1])

\* the response of the test: 0x02, 0x60 decode to 608 ppm
C6_Witness ==
    /\ ret.fn = "parse_gas_contentration_ppm"
    /\ buf = <<255, 134, 2, 96, 71, 0, 0, 0, 209>>
    /\ ret.res = Ok(608)

----------------------------------------------------------------------------
(* C7 *)

\* C7: where parse_payload fails, parse_gas_contentration_ppm fails with the same
\* error and the same carried values; WrongPacketType is returned only for buffers
\* parse_payload accepts.
C7_ErrorsPropagate ==
    ret.fn = "parse_gas_contentration_ppm" =>
        LET p == parse_payload(buf).res IN
        /\ p.kind # "Ok" => /\ ret.res.kind = p.kind
                            /\ ret.res = p
        /\ ret.res.kind = "WrongPacketType" => p.kind = "Ok"

C7_Witness ==
    /\ ret.fn = "parse_gas_contentration_ppm"
    /\ faults = 1
    /\ ret.res.kind = "WrongChecksum"
    /\ ret.res.found = buf[9]

----------------------------------------------------------------------------
(* C8 *)

\* C8: calibrate_span_point and set_detection_range put the high byte of the value
\* in byte 3 and the low byte in byte 4, and 0 in bytes 5 and 6.
C8_BigEndianSplit ==
    call.fn \in {"calibrate_span_point", "set_detection_range"} =>
        /\ wire[4] = call.value \div 256
        /\ wire[5] = call.value % 256
        /\ 256 * wire[4] + wire[5] = call.value
        /\ wire[6] = 0
        /\ wire[7] = 0

\* issue_3_op_precedence: 0x07D0 gives 0x07, 0xD0
C8_Witness ==
    /\ call.fn = "set_detection_range"
    /\ call.value = 2000
    /\ wire[4] = 7
    /\ wire[5] = 208

----------------------------------------------------------------------------
(* C9 *)

\* C9: on every 7-byte span checksum returns (1 + (0xFF - S)) mod 256, S the sum of
\* the bytes mod 256; the result and every step stay within 0..255 (S = 0 gives 0),
\* and the vectors 0x79, 0xA0, 0xD1 of test_checksum are reproduced.
C9_ChecksumOfSpan(span, out) ==
    /\ Len(span) = 7
    /\ Fold(0, span) = SumBytes(span) % 256
    /\ ChecksumDiff(span) \in Byte
    /\ out \in Byte
    /\ out = ChecksumOf(span)
    /\ SumBytes(span) % 256 = 0 => out = 0
    /\ span = <<1, 134, 0, 0, 0, 0, 0>> => out = 121
    /\ span = <<1, 136, 7, 208, 0, 0, 0>> => out = 160
    /\ span = <<134, 2, 96, 71, 0, 0, 0>> => out = 209

C9_Checksum ==
    /\ Encoded => C9_ChecksumOfSpan(SubSeq(wire, 2, 8), wire[9])
    /\ (Decoded /\ ret.cks.span # <<>>) => C9_ChecksumOfSpan(ret.cks.span, ret.cks.out)

\* a span whose bytes sum to 0 mod 256: its checksum is 0x00
C9_Witness ==
    /\ Decoded
    /\ ret.cks.span # <<>>
    /\ SumBytes(ret.cks.span) % 256 = 0
    /\ ret.cks.out = 0

----------------------------------------------------------------------------
(* C10 *)

OneByteChanged(a, b) ==
    /\ Len(a) = Len(b)
    /\ Cardinality({i \in 1 .. Len(a) : a[i] # b[i]}) = 1

\* C10: an accepted packet's bytes 1..8 sum to 0 mod 256, and with exactly one of
\* bytes 1..8 replaced by a different value parse_payload rejects it with
\* WrongChecksum.
C10_SingleByteCorruption ==
    /\ (ret.fn = "parse_payload" /\ ret.res.kind = "Ok") =>
           /\ SumBytes(SubSeq(buf, 2, 9)) % 256 = 0
           /\ \A i \in 2 .. 9 : \A b \in Byte \ {buf[i]} :
                  parse_payload([buf EXCEPT ![i] = b]).res.kind = "WrongChecksum"
    /\ (/\ ret.fn = "parse_payload"
        /\ parse_payload(wire).res.kind = "Ok"
        /\ OneByteChanged(wire, buf)
        /\ buf[1] = wire[1]) => ret.res.kind = "WrongChecksum"

\* an accepted sensor frame, one payload byte changed on the line, then decoded
C10_Witness ==
    /\ ret.fn = "parse_payload"
    /\ call.fn = "sensor"
    /\ faults = 1
    /\ parse_payload(wire).res.kind = "Ok"
    /\ OneByteChanged(wire, buf)
    /\ buf[3] # wire[3]
    /\ ret.res.kind = "WrongChecksum"

====
